---- MODULE Spec2Model ----
(***************************************************************************)
(* clap-subopt-parser: SubOptParser::parse_ref, the SubOpt record of the   *)
(* crate documentation (Buf) and the conversion of SubOptError into        *)
(* clap::Error.                                                            *)
(*                                                                         *)
(* Text is a sequence of one-character strings, so that str::split and     *)
(* str::split_once work on characters as they do in the program.           *)
(***************************************************************************)
EXTENDS Integers, Sequences, FiniteSets, TLC

VARIABLES
    pc,      \* where the caller / parse_ref is: "idle", "loop", "done"
    input,   \* s, the argument text of the running (or last) parse_ref call
    opts,    \* the str::Split iterator of line 86
    val,     \* the slot of the local `val` of parse_ref (stale between calls)
    calls,   \* history: the update calls the running parse_ref call has made
    result,  \* what parse_ref returned to its caller
    prev     \* history: the outcome the caller kept of the call before this one

vars == <<pc, input, opts, val, calls, result, prev>>

-----------------------------------------------------------------------------
(* Bounds of the model. *)

\* An input holds at most MaxDelims delimiter characters (':' or '=').
MaxDelims == 3

\* The delimiter-free spans an input is built from: the empty text, the two
\* keys of Buf and two numbers (the default 0 and another).  A number in the
\* place of a key is an unknown key, a key in the place of a number is not a
\* number.
Words ==
    { <<>>,
      <<"s", "o", "u", "r", "c", "e">>,
      <<"o", "f", "f", "s", "e", "t">>,
      <<"0">>,
      <<"1", "0", "0", "0">> }

Delims == {":", "="}

RECURSIVE Strings(_)
Strings(n) ==
    IF n = 0 THEN Words
    ELSE {w \o <<d>> \o t : w \in Words, d \in Delims, t \in Strings(n - 1)}

Inputs == UNION {Strings(n) : n \in 0..MaxDelims}

-----------------------------------------------------------------------------
(* std text operations used by the program. *)

\* str::find of a single character: index of its first occurrence, 0 if none.
Find(s, c) ==
    IF \E i \in 1..Len(s) : s[i] = c
    THEN CHOOSE i \in 1..Len(s) : s[i] = c /\ \A j \in 1..(i - 1) : s[j] # c
    ELSE 0

None == [tag |-> "None"]
Some(x) == [tag |-> "Some", some |-> x]

\* s.split(':') : a lazy iterator over the rest of the text.
Split(s) == [rest |-> s, finished |-> FALSE]

\* Split::next as str::split_terminator would yield: no item for an empty rest
\* at the end of the text.
SplitNextTerminator(it) ==
    IF it.finished \/ (it.rest = <<>> /\ Find(it.rest, ":") = 0)
    THEN [item |-> None, it |-> [rest |-> <<>>, finished |-> TRUE]]
    ELSE LET i == Find(it.rest, ":") IN
         IF i = 0
         THEN [item |-> Some(it.rest),
               it   |-> [rest |-> <<>>, finished |-> TRUE]]
         ELSE [item |-> Some(SubSeq(it.rest, 1, i - 1)),
               it   |-> [rest |-> SubSeq(it.rest, i + 1, Len(it.rest)),
                         finished |-> FALSE]]

\* Split::next followed by a filter that drops empty items.
RECURSIVE SplitNextNonEmpty(_)
SplitNextNonEmpty(it) ==
    IF it.finished THEN [item |-> None, it |-> it]
    ELSE LET i == Find(it.rest, ":")
             item == IF i = 0 THEN it.rest ELSE SubSeq(it.rest, 1, i - 1)
             after == IF i = 0
                      THEN [rest |-> <<>>, finished |-> TRUE]
                      ELSE [rest |-> SubSeq(it.rest, i + 1, Len(it.rest)),
                            finished |-> FALSE]
         IN IF item = <<>> THEN SplitNextNonEmpty(after)
            ELSE [item |-> Some(item), it |-> after]

\* Split::next : the item yielded and the iterator afterwards.
SplitNext(it) ==
    IF it.finished THEN [item |-> None, it |-> it]
    ELSE LET i == Find(it.rest, ":") IN
         IF i = 0
         THEN [item |-> Some(it.rest),
               it   |-> [rest |-> <<>>, finished |-> TRUE]]
         ELSE [item |-> Some(SubSeq(it.rest, 1, i - 1)),
               it   |-> [rest |-> SubSeq(it.rest, i + 1, Len(it.rest)),
                         finished |-> FALSE]]

\* opt.rsplit_once('=') : the text before and after the last '='.
RSplitOnce(opt) ==
    IF \E i \in 1..Len(opt) : opt[i] = "="
    THEN LET i == CHOOSE i \in 1..Len(opt) :
                      opt[i] = "=" /\ \A j \in (i + 1)..Len(opt) : opt[j] # "="
         IN Some(<<SubSeq(opt, 1, i - 1), SubSeq(opt, i + 1, Len(opt))>>)
    ELSE None

\* opt.split_once('=') : the text before and after the first '='.
SplitOnce(opt) ==
    LET i == Find(opt, "=") IN
    IF i = 0 THEN None
    ELSE Some(<<SubSeq(opt, 1, i - 1), SubSeq(opt, i + 1, Len(opt))>>)

Digits == {"0", "1", "2", "3", "4", "5", "6", "7", "8", "9"}

DigitValue(c) ==
    CASE c = "0" -> 0 [] c = "1" -> 1 [] c = "2" -> 2 [] c = "3" -> 3
      [] c = "4" -> 4 [] c = "5" -> 5 [] c = "6" -> 6 [] c = "7" -> 7
      [] c = "8" -> 8 [] c = "9" -> 9

RECURSIVE Accumulate(_, _)
Accumulate(acc, ds) ==
    IF ds = <<>> THEN acc
    ELSE Accumulate(acc * 10 + DigitValue(Head(ds)), Tail(ds))

\* Display of core::num::ParseIntError.
IntErrorEmpty == <<"c", "a", "n", "n", "o", "t", " ", "p", "a", "r", "s", "e", " ", "i", "n", "t", "e", "g", "e", "r", " ", "f", "r", "o", "m", " ", "e", "m", "p", "t", "y", " ", "s", "t", "r", "i", "n", "g">>
IntErrorInvalidDigit == <<"i", "n", "v", "a", "l", "i", "d", " ", "d", "i", "g", "i", "t", " ", "f", "o", "u", "n", "d", " ", "i", "n", " ", "s", "t", "r", "i", "n", "g">>

Ok(x) == [tag |-> "Ok", val |-> x]
Err(e) == [tag |-> "Err", err |-> e]

\* v.parse::<usize>() with its error rendered by to_string().  The numbers of
\* Words are far below usize::MAX, so the overflow error does not arise.
ParseUsize(v) ==
    IF v = <<>> THEN Err(IntErrorEmpty)
    ELSE LET ds == IF Head(v) = "+" THEN Tail(v) ELSE v IN
         IF ds = <<>> \/ \E i \in 1..Len(ds) : ds[i] \notin Digits
         THEN Err(IntErrorInvalidDigit)
         ELSE Ok(Accumulate(0, ds))

-----------------------------------------------------------------------------
(* SubOptError and the record type Buf of the crate documentation. *)

UnknownKey(k) == [variant |-> "UnknownKey", payload |-> k]
MissingValueForKey(k) == [variant |-> "MissingValueForKey", payload |-> k]
Custom(s) == [variant |-> "Custom", payload |-> s]

KeySource == <<"s", "o", "u", "r", "c", "e">>
KeyOffset == <<"o", "f", "f", "s", "e", "t">>

\* Buf::default()
BufDefault == [source |-> 0, offset |-> 0]

\* update_from_value that knows no key at all.
Buf_update_from_value_NoKeys(self, k) ==
    [self |-> self, ret |-> Err(UnknownKey(k))]

\* update_from_kvpair that lets an unknown key pass.
Buf_update_from_kvpair_Lenient(self, k, v) ==
    IF k = KeySource THEN
        LET n == ParseUsize(v) IN
        IF n.tag = "Err" THEN [self |-> self, ret |-> Err(Custom(n.err))]
        ELSE [self |-> [self EXCEPT !.source = n.val], ret |-> Ok(<<>>)]
    ELSE IF k = KeyOffset THEN
        LET n == ParseUsize(v) IN
        IF n.tag = "Err" THEN [self |-> self, ret |-> Err(Custom(n.err))]
        ELSE [self |-> [self EXCEPT !.offset = n.val], ret |-> Ok(<<>>)]
    ELSE [self |-> self, ret |-> Ok(<<>>)]

\* update_from_kvpair whose "offset" arm assigns self.source.
Buf_update_from_kvpair_WrongField(self, k, v) ==
    IF k = KeySource \/ k = KeyOffset THEN
        LET n == ParseUsize(v) IN
        IF n.tag = "Err" THEN [self |-> self, ret |-> Err(Custom(n.err))]
        ELSE [self |-> [self EXCEPT !.source = n.val], ret |-> Ok(<<>>)]
    ELSE [self |-> self, ret |-> Err(UnknownKey(k))]

\* update_from_kvpair whose "source" arm rebuilds the record from defaults.
Buf_update_from_kvpair_Rebuild(self, k, v) ==
    IF k = KeySource THEN
        LET n == ParseUsize(v) IN
        IF n.tag = "Err" THEN [self |-> self, ret |-> Err(Custom(n.err))]
        ELSE [self |-> [BufDefault EXCEPT !.source = n.val], ret |-> Ok(<<>>)]
    ELSE IF k = KeyOffset THEN
        LET n == ParseUsize(v) IN
        IF n.tag = "Err" THEN [self |-> self, ret |-> Err(Custom(n.err))]
        ELSE [self |-> [self EXCEPT !.offset = n.val], ret |-> Ok(<<>>)]
    ELSE [self |-> self, ret |-> Err(UnknownKey(k))]

\* An update returns the record afterwards and the method's Result.
Buf_update_from_value(self, k) ==
    [self |-> self,
     ret  |-> Err(IF k = KeySource \/ k = KeyOffset
                  THEN MissingValueForKey(k)
                  ELSE UnknownKey(k))]

Buf_update_from_kvpair(self, k, v) ==
    IF k = KeySource THEN
        LET n == ParseUsize(v) IN
        IF n.tag = "Err" THEN [self |-> self, ret |-> Err(Custom(n.err))]
        ELSE [self |-> [self EXCEPT !.source = n.val], ret |-> Ok(<<>>)]
    ELSE IF k = KeyOffset THEN
        LET n == ParseUsize(v) IN
        IF n.tag = "Err" THEN [self |-> self, ret |-> Err(Custom(n.err))]
        ELSE [self |-> [self EXCEPT !.offset = n.val], ret |-> Ok(<<>>)]
    ELSE [self |-> self, ret |-> Err(UnknownKey(k))]

-----------------------------------------------------------------------------
(* impl From<SubOptError> for clap::Error *)

FmtUnknownKey(k) == <<"U", "n", "k", "n", "o", "w", "n", " ", "k", "e", "y", ":", " ">> \o k \o <<"\n">>
FmtMissingValue(k) == <<"M", "i", "s", "s", "i", "n", "g", " ", "v", "a", "l", "u", "e", " ", "f", "o", "r", " ", "k", "e", "y", " ", "'">> \o k \o <<"'", "\n">>
FmtCustom(s) == <<"C", "u", "s", "t", "o", "m", " ", "e", "r", "r", "o", "r", ":", " ">> \o s \o <<"\n">>

ClapErrorRaw(kind, message) == [kind |-> kind, message |-> message]

\* The conversion with MissingValueForKey reported as an invalid value.
FromSubOptError_SharedKind(sub) ==
    CASE sub.variant = "UnknownKey" ->
            ClapErrorRaw("UnknownArgument", FmtUnknownKey(sub.payload))
      [] sub.variant = "MissingValueForKey" ->
            ClapErrorRaw("InvalidValue", FmtMissingValue(sub.payload))
      [] sub.variant = "Custom" ->
            ClapErrorRaw("InvalidValue", FmtCustom(sub.payload))

FromSubOptError(sub) ==
    CASE sub.variant = "UnknownKey" ->
            ClapErrorRaw("UnknownArgument", FmtUnknownKey(sub.payload))
      [] sub.variant = "MissingValueForKey" ->
            ClapErrorRaw("EmptyValue", FmtMissingValue(sub.payload))
      [] sub.variant = "Custom" ->
            ClapErrorRaw("InvalidValue", FmtCustom(sub.payload))

-----------------------------------------------------------------------------
(* The ':'-separated tokens of a text, by the positions of its colons. *)

ColonIdx(s) == {i \in 1..Len(s) : s[i] = ":"}

NumTokens(s) == Cardinality(ColonIdx(s)) + 1

\* Position of the i-th colon; 0 before the first token, Len(s) + 1 after the last.
NthColon(s, i) ==
    IF i = 0 THEN 0
    ELSE IF i > Cardinality(ColonIdx(s)) THEN Len(s) + 1
    ELSE CHOOSE p \in ColonIdx(s) : Cardinality({q \in ColonIdx(s) : q <= p}) = i

Token(s, i) == SubSeq(s, NthColon(s, i - 1) + 1, NthColon(s, i) - 1)

\* The text with its tokens j and j + 1 exchanged.
SwapTokens(s, j) ==
    SubSeq(s, 1, NthColon(s, j - 1))
        \o Token(s, j + 1) \o <<":">> \o Token(s, j)
        \o SubSeq(s, NthColon(s, j + 1), Len(s))

-----------------------------------------------------------------------------
(* SubOptParser::parse_ref *)

Pending == [tag |-> "Pending"]

NoIter == [rest |-> <<>>, finished |-> TRUE]

\* The record of the call before is used again.
LetValStale(slot) == slot

\* let mut val = T::default(); written over whatever the slot held.
LetVal(slot) == BufDefault

\* A Result that is looked at but never returned early.
TryNever(ret) == FALSE

\* The `?` of lines 89 and 90: whether the Result makes parse_ref return.
Try(ret) == ret.tag = "Err"

\* Lines 82-86: entry of parse_ref with the text s.
ParseRefEnter(s) ==
    /\ input' = s
    /\ val' = LetVal(val)
    /\ opts' = Split(s)
    /\ calls' = <<>>
    /\ result' = Pending
    /\ pc' = "loop"

\* The caller parses any text.
Parse ==
    /\ pc = "idle"
    /\ \E s \in Inputs : ParseRefEnter(s)
    /\ prev' = <<>>

\* The caller keeps the outcome and parses the same text again.
ParseAgain ==
    /\ pc = "done"
    /\ prev = <<>>
    /\ prev' = <<[input |-> input, calls |-> calls, result |-> result, how |-> "same"]>>
    /\ ParseRefEnter(input)

\* The caller keeps the outcome and parses the text with two neighbouring
\* tokens exchanged.
ParseReordered ==
    /\ pc = "done"
    /\ prev = <<>>
    /\ \E j \in 1..(NumTokens(input) - 1) :
          /\ SwapTokens(input, j) # input
          /\ ParseRefEnter(SwapTokens(input, j))
    /\ prev' = <<[input |-> input, calls |-> calls, result |-> result,
                  how |-> "reordered"]>>

\* Lines 87-92: one iteration of `for opt in opts`.
ParseRefLoop ==
    /\ pc = "loop"
    /\ LET n == SplitNext(opts) IN
       /\ n.item.tag = "Some"
       /\ LET opt == n.item.some
              kv  == SplitOnce(opt)
              u   == IF kv.tag = "Some"
                     THEN Buf_update_from_kvpair(val, kv.some[1], kv.some[2])
                     ELSE Buf_update_from_value(val, opt)
              call == IF kv.tag = "Some"
                      THEN [method |-> "update_from_kvpair", args |-> kv.some,
                            ret |-> u.ret]
                      ELSE [method |-> "update_from_value", args |-> <<opt>>,
                            ret |-> u.ret]
          IN /\ opts' = n.it
             /\ val' = u.self
             /\ calls' = Append(calls, call)
             /\ IF Try(u.ret)
                THEN /\ result' = Err(FromSubOptError(u.ret.err))
                     /\ pc' = "done"
                ELSE /\ result' = result
                     /\ pc' = "loop"
    /\ UNCHANGED <<input, prev>>

\* Line 93: the iterator is exhausted, Ok(val).
ParseRefReturn ==
    /\ pc = "loop"
    /\ SplitNext(opts).item.tag = "None"
    /\ result' = Ok(val)
    /\ pc' = "done"
    /\ opts' = SplitNext(opts).it
    /\ UNCHANGED <<input, val, calls, prev>>

\* The caller consumes the result; nothing of the call is left but the slot.
Take ==
    /\ pc = "done"
    /\ pc' = "idle"
    /\ input' = <<>>
    /\ opts' = NoIter
    /\ calls' = <<>>
    /\ result' = Pending
    /\ prev' = <<>>
    /\ UNCHANGED val

Init ==
    /\ pc = "idle"
    /\ input = <<>>
    /\ opts = NoIter
    /\ val = BufDefault
    /\ calls = <<>>
    /\ result = Pending
    /\ prev = <<>>

Next ==
    \/ Parse
    \/ ParseAgain
    \/ ParseReordered
    \/ ParseRefLoop
    \/ ParseRefReturn
    \/ Take

Spec == Init /\ [][Next]_vars

-----------------------------------------------------------------------------
(* Vocabulary of the properties. *)

Returned == pc = "done"

Failed(c) == c.ret.tag = "Err"

HasEq(t) == \E i \in 1..Len(t) : t[i] = "="

ValueCall(c, t) == c.method = "update_from_value" /\ c.args = <<t>>

-----------------------------------------------------------------------------
(* C1: when an update call fails for the token at position i, no update   *)
(* call is made for any later token, parse_ref has returned, and what it  *)
(* returned is the error of that call (as clap::Error), never a record.   *)
C1_FirstErrorAborts ==
    \A i \in 1..Len(calls) :
        Failed(calls[i]) =>
            /\ i = Len(calls)
            /\ Returned
            /\ result.tag = "Err"
            /\ result.err = FromSubOptError(calls[i].ret.err)

\* A call other than the first failed, and tokens after it were left alone.
C1_Witness ==
    /\ Returned
    /\ Len(calls) >= 2
    /\ Failed(calls[Len(calls)])
    /\ NumTokens(input) > Len(calls)

(* C2: the update calls are, in order, one per ':'-separated token from    *)
(* the left, none skipped, repeated or reordered; a parse in which no call *)
(* fails makes exactly (number of ':' in the input) + 1 calls.             *)
C2_OneCallPerTokenInOrder ==
    /\ Len(calls) <= NumTokens(input)
    /\ \A i \in 1..Len(calls) :
          LET c == calls[i] IN
          Token(input, i) = IF c.method = "update_from_kvpair"
                            THEN c.args[1] \o <<"=">> \o c.args[2]
                            ELSE c.args[1]
    /\ (Returned /\ result.tag = "Ok") =>
          /\ Len(calls) = Cardinality(ColonIdx(input)) + 1
          /\ \A i \in 1..Len(calls) : ~Failed(calls[i])

\* A parse of two tokens that succeeded.
C2_Witness ==
    /\ Returned
    /\ result.tag = "Ok"
    /\ Len(calls) = 2
    /\ Token(input, 1) # Token(input, 2)

(* C3: a token goes to update_from_value(token) exactly when it holds no   *)
(* '='; otherwise it goes to update_from_kvpair(key, value) with key the   *)
(* text before the first '=' and value all the text after it.              *)
C3_TokenClassification ==
    \A i \in 1..Len(calls) :
        LET t == Token(input, i)
            c == calls[i]
        IN /\ c.method \in {"update_from_value", "update_from_kvpair"}
           /\ (c.method = "update_from_value") <=> ~HasEq(t)
           /\ c.method = "update_from_value" => c.args = <<t>>
           /\ c.method = "update_from_kvpair" =>
                 /\ Len(c.args) = 2
                 /\ ~HasEq(c.args[1])
                 /\ c.args[1] \o <<"=">> \o c.args[2] = t

\* A key=value call whose key is not empty and whose value holds a further '='.
C3_Witness ==
    \E i \in 1..Len(calls) :
        /\ calls[i].method = "update_from_kvpair"
        /\ calls[i].args[1] # <<>>
        /\ HasEq(calls[i].args[2])

-----------------------------------------------------------------------------
(* Vocabulary of the properties about Buf. *)

Keys == {KeySource, KeyOffset}

FirstEq(t) == CHOOSE i \in 1..Len(t) : t[i] = "=" /\ \A j \in 1..Len(t) : t[j] = "=" => i <= j

KeyOf(t) == IF HasEq(t) THEN SubSeq(t, 1, FirstEq(t) - 1) ELSE t

ValueOf(t) == SubSeq(t, FirstEq(t) + 1, Len(t))

AllDigits(v) == v # <<>> /\ \A i \in 1..Len(v) : v[i] \in Digits

\* The texts usize::from_str accepts (within the range of usize).
IsUnsigned(v) == AllDigits(v) \/ (v # <<>> /\ Head(v) = "+" /\ AllDigits(Tail(v)))

RECURSIVE Decimal(_)
Decimal(v) ==
    IF v = <<>> THEN 0
    ELSE IF v[Len(v)] = "+" THEN 0
    ELSE Decimal(SubSeq(v, 1, Len(v) - 1)) * 10 + DigitValue(v[Len(v)])

ValidPair(t) == HasEq(t) /\ KeyOf(t) \in Keys /\ IsUnsigned(ValueOf(t))

UnknownToken(t) == KeyOf(t) \notin Keys

BareKey(t) == ~HasEq(t) /\ t \in Keys

TokenIdx(s) == 1..NumTokens(s)

AllValidPairs(s) == \A i \in TokenIdx(s) : ValidPair(Token(s, i))

\* Token i is the first one that is not a valid key=value token.
FirstRejected(s, i) == ~ValidPair(Token(s, i)) /\ \A j \in 1..(i - 1) : ValidPair(Token(s, j))

Carrying(s, key) == {i \in TokenIdx(s) : KeyOf(Token(s, i)) = key}

LastValue(s, key) ==
    IF Carrying(s, key) = {} THEN 0
    ELSE LET last == CHOOSE i \in Carrying(s, key) : \A j \in Carrying(s, key) : j <= i
         IN Decimal(ValueOf(Token(s, last)))

ResultIsError(e) == result.tag = "Err" /\ result.err = FromSubOptError(e)

-----------------------------------------------------------------------------
(* C5 as stated: whenever the input holds a token with an unrecognized key *)
(* (or an unrecognized bare value), the parse result is UnknownKey naming  *)
(* that key.                                                               *)
C5_AnyUnknownTokenDecides ==
    (Returned /\ \E i \in TokenIdx(input) : UnknownToken(Token(input, i))) =>
        \E i \in TokenIdx(input) :
            /\ UnknownToken(Token(input, i))
            /\ ResultIsError(UnknownKey(KeyOf(Token(input, i))))

(* C5, amended: when the first token that is not a valid key=value token   *)
(* has an unrecognized key (or is an unrecognized bare value), the parse   *)
(* result is UnknownKey naming exactly that key, and no token after it is  *)
(* applied.                                                                *)
C5_FirstRejectedUnknownKey ==
    Returned =>
        \A i \in TokenIdx(input) :
            (FirstRejected(input, i) /\ UnknownToken(Token(input, i))) =>
                /\ Len(calls) = i
                /\ calls[i].ret.tag = "Err"
                /\ calls[i].ret.err = UnknownKey(KeyOf(Token(input, i)))
                /\ ResultIsError(UnknownKey(KeyOf(Token(input, i))))

\* A token with an unknown, non-empty key was rejected after a valid token and
\* before another token.
C5_Witness ==
    /\ Returned
    /\ NumTokens(input) = 3
    /\ Len(calls) = 2
    /\ ValidPair(Token(input, 1))
    /\ KeyOf(Token(input, 2)) \notin Keys \cup {<<>>}
    /\ result.tag = "Err"
    /\ result.err.kind = "UnknownArgument"

(* C6 as stated: whenever some bare-value token of the input equals a key  *)
(* that needs a value (source, offset), the parse result is                *)
(* MissingValueForKey naming that key.                                     *)
C6_AnyBareKeyDecides ==
    (Returned /\ \E i \in TokenIdx(input) : BareKey(Token(input, i))) =>
        \E i \in TokenIdx(input) :
            /\ BareKey(Token(input, i))
            /\ ResultIsError(MissingValueForKey(Token(input, i)))

(* C6, amended: when the first token that is not a valid key=value token   *)
(* is a bare value equal to a key that needs a value (source, offset), the *)
(* parse result is MissingValueForKey naming that key.                     *)
C6_FirstRejectedBareKey ==
    Returned =>
        \A i \in TokenIdx(input) :
            (FirstRejected(input, i) /\ BareKey(Token(input, i))) =>
                /\ Len(calls) = i
                /\ calls[i].ret.tag = "Err"
                /\ calls[i].ret.err = MissingValueForKey(Token(input, i))
                /\ ResultIsError(MissingValueForKey(Token(input, i)))

\* A bare "offset" was rejected after a valid token.
C6_Witness ==
    /\ Returned
    /\ Len(calls) = 2
    /\ ValidPair(Token(input, 1))
    /\ Token(input, 2) = KeyOffset
    /\ result.tag = "Err"
    /\ result.err.kind = "EmptyValue"

(* C7: an input of key=value tokens with recognized keys and valid         *)
(* unsigned values parses to a record whose every field is the value of    *)
(* the last token carrying its key, or 0 when no token carries it.         *)
C7_LastWriteWins ==
    (Returned /\ AllValidPairs(input)) =>
        /\ result.tag = "Ok"
        /\ result.val.source = LastValue(input, KeySource)
        /\ result.val.offset = LastValue(input, KeyOffset)

\* Two tokens carry the same key with different values; the other field
\* stays at its default.
C7_Witness ==
    /\ Returned
    /\ AllValidPairs(input)
    /\ NumTokens(input) = 2
    /\ KeyOf(Token(input, 1)) = KeyOf(Token(input, 2))
    /\ Decimal(ValueOf(Token(input, 1))) # Decimal(ValueOf(Token(input, 2)))
    /\ result.tag = "Ok"

ExampleA == KeySource \o <<"=", "0", ":">> \o KeyOffset \o <<"=", "1", "0", "0", "0">>
ExampleB == KeyOffset \o <<"=", "1", "0", "0", "0", ":">> \o KeySource \o <<"=", "0">>

(* C8: two inputs whose valid key=value tokens are permutations of each    *)
(* other and whose keys are pairwise distinct give equal records; both     *)
(* "source=0:offset=1000" and "offset=1000:source=0" give                  *)
(* {source: 0, offset: 1000}.                                              *)
C8_OrderIndependent ==
    /\ (/\ Returned
        /\ prev # <<>>
        /\ prev[1].how = "reordered"
        /\ AllValidPairs(input)
        /\ \A i, j \in TokenIdx(input) :
              i # j => KeyOf(Token(input, i)) # KeyOf(Token(input, j)))
       => (/\ result.tag = "Ok"
           /\ prev[1].result.tag = "Ok"
           /\ result.val = prev[1].result.val)
    /\ (Returned /\ input \in {ExampleA, ExampleB})
       => (/\ result.tag = "Ok"
           /\ result.val = [source |-> 0, offset |-> 1000])

\* "offset=1000:source=0" was parsed right after "source=0:offset=1000".
C8_Witness ==
    /\ Returned
    /\ prev # <<>>
    /\ prev[1].how = "reordered"
    /\ prev[1].input = ExampleA
    /\ input = ExampleB
    /\ result.tag = "Ok"

-----------------------------------------------------------------------------
(* Vocabulary of the properties about the conversion. *)

Variants == {"UnknownKey", "MissingValueForKey", "Custom"}

KindOfVariant(v) ==
    CASE v = "UnknownKey" -> "UnknownArgument"
      [] v = "MissingValueForKey" -> "EmptyValue"
      [] v = "Custom" -> "InvalidValue"

\* The text p occurs in the text t.
Occurs(p, t) == \E i \in 0..(Len(t) - Len(p)) : SubSeq(t, i + 1, i + Len(p)) = p

\* The SubOptError of the last call of a log of calls.
LastError(log) == log[Len(log)].ret.err

(* C9: the conversion of SubOptError to clap::Error maps every variant:    *)
(* UnknownKey to UnknownArgument, MissingValueForKey to EmptyValue, Custom *)
(* to InvalidValue; two errors converted to the same kind are of the same  *)
(* variant; and the message of the clap::Error carries the key or message  *)
(* the SubOptError carried.                                                *)
C9_ConversionOneToOne ==
    /\ \A i \in 1..Len(calls) :
          (Returned /\ Failed(calls[i])) =>
             /\ result.tag = "Err"
             /\ calls[i].ret.err.variant \in Variants
             /\ result.err.kind = KindOfVariant(calls[i].ret.err.variant)
             /\ Occurs(calls[i].ret.err.payload, result.err.message)
    /\ (/\ Returned
        /\ prev # <<>>
        /\ result.tag = "Err"
        /\ prev[1].result.tag = "Err")
       => (/\ (result.err.kind = prev[1].result.err.kind)
                 <=> (LastError(calls).variant = LastError(prev[1].calls).variant)
           /\ (result.err = prev[1].result.err)
                 <=> (LastError(calls) = LastError(prev[1].calls)))

\* parse_ref returned the conversion of a MissingValueForKey that names a key.
C9_Witness ==
    /\ Returned
    /\ Len(calls) = 2
    /\ Failed(calls[2])
    /\ calls[2].ret.err = MissingValueForKey(KeySource)
    /\ result.tag = "Err"
    /\ result.err.kind = "EmptyValue"
    /\ Occurs(KeySource, result.err.message)

-----------------------------------------------------------------------------
(* C10: every parse_ref call starts from the default record, whatever the  *)
(* calls before it left behind; a field that no update of this call wrote  *)
(* has its default in the record returned; a call on the same input as the *)
(* call before it returns the same result; and an error result holds no    *)
(* record.                                                                 *)
C10_CallsIndependent ==
    /\ (pc = "loop" /\ calls = <<>>) => val = BufDefault
    /\ (Returned /\ result.tag = "Ok") =>
          /\ (\A i \in 1..Len(calls) : calls[i].args[1] # KeySource)
                => result.val.source = BufDefault.source
          /\ (\A i \in 1..Len(calls) : calls[i].args[1] # KeyOffset)
                => result.val.offset = BufDefault.offset
    /\ (Returned /\ prev # <<>> /\ prev[1].how = "same") =>
          /\ input = prev[1].input
          /\ result = prev[1].result
    /\ (Returned /\ result.tag = "Err") => DOMAIN result = {"tag", "err"}

\* A call failed after changing its record, and the same input was parsed again.
C10_Witness ==
    /\ Returned
    /\ prev # <<>>
    /\ prev[1].how = "same"
    /\ prev[1].result.tag = "Err"
    /\ Len(calls) = 2
    /\ val # BufDefault
    /\ result.tag = "Err"

====
